---- MODULE Spec2Model ----
(***************************************************************************)
(* A model of the QVD reader: the symbol scan (reader.rs), the row index   *)
(* decoder (reader.rs), the column and document queries (types.rs,         *)
(* column.rs) and the decode pipeline read_qvd / QvdDocument::read.        *)
(*                                                                         *)
(* Positions are 0-based as in the Rust source; a TLA+ sequence s holds    *)
(* the Rust element s[k] at s[k + 1].                                      *)
(***************************************************************************)
EXTENDS Integers, Sequences, FiniteSets, TLC

VARIABLES
    field_buf,      \* get_column_values_from_buf: the symbol segment scanned
    i,              \* get_column_values_from_buf: the scan position
    string_start,   \* get_column_values_from_buf: start of the pending text
    cell_values,    \* get_column_values_from_buf: the Dictionary built so far
    scan_pc,        \* "idle" | "run" (in the while loop) | "done" | "panic"
    symbols_in,     \* the encoded symbols field_buf was built from
    row_buf,        \* get_row_indexes: buf, the row section
    row_field,      \* get_row_indexes: field, [bit_offset, bit_width, bias]
    record_byte_size,   \* get_row_indexes: record_byte_size
    indexes,        \* get_row_indexes: the IndexSequence built so far
    chunk_no,       \* get_row_indexes: the number of chunks consumed
    rows_pc,        \* "idle" | "start" | "loop" | "done" | "panic"
    column,         \* a Column: [header, symbols, indexes]
    query,          \* the last query on column: [op, arg, ok, values, gets, rows, some]
    document,       \* QvdDocument::columns, a sequence of Columns
    doc_pc,         \* "none" (no Document) | "ready" | "panic" (a query panicked)
    iters,          \* the RowIters of the caller, by name
    file,           \* the file read_qvd is given: [fault, meta, data]
    pc,             \* the position of read_qvd
    qvd_structure,  \* the parsed QvdTableHeader
    read_buf,       \* buf of read_qvd: the bytes after the metadata text
    symbol_map,     \* read_buf before qvd_structure.offset
    row_section,    \* read_buf from qvd_structure.offset
    fields,         \* the Fields, in metadata order
    workers,        \* per field: "todo" | "done" | "panic"
    slots,          \* per field: the Column its worker produced
    finish_order,   \* the fields in the order their workers completed
    result,         \* what QvdDocument::read returned: "none" | "Ok" | "Err"
    previous        \* how an earlier read of the same file ended, if there was one

scanVars == <<field_buf, i, string_start, cell_values, scan_pc, symbols_in>>

rowVars == <<row_buf, row_field, record_byte_size, indexes, chunk_no, rows_pc>>

colVars == <<column, query>>

docVars == <<document, doc_pc, iters>>

readVars == <<file, pc, qvd_structure, read_buf, symbol_map, row_section, fields,
              workers, slots, finish_order, result>>

runVars == <<previous>>

vars == <<scanVars, rowVars, colVars, docVars, readVars, runVars>>

(***************************************************************************)
(* Each specification below runs one part of the program; the variables of *)
(* the other parts rest at these values.                                   *)
(***************************************************************************)
ScanIdle ==
    /\ field_buf = <<>>
    /\ i = 0
    /\ string_start = 0
    /\ cell_values = <<>>
    /\ scan_pc = "idle"
    /\ symbols_in = <<>>

RowsIdle ==
    /\ row_buf = <<>>
    /\ row_field = [bit_offset |-> 0, bit_width |-> 0, bias |-> 0]
    /\ record_byte_size = 0
    /\ indexes = <<>>
    /\ chunk_no = 0
    /\ rows_pc = "idle"

NoQuery ==
    [op |-> "none", arg |-> <<>>, ok |-> TRUE, values |-> <<>>, gets |-> <<>>,
     rows |-> <<>>, some |-> FALSE]

ColumnIdle ==
    /\ column = [header |-> "", symbols |-> <<>>, indexes |-> <<>>]
    /\ query = NoQuery

IterIds == {1, 2}

\* No RowIter: rows() or rows_by_indexes() has not been called under this name.
NoIter ==
    [live |-> FALSE, kind |-> "none", arg |-> <<>>, values |-> <<>>,
     rows_total |-> 0, index |-> 0, yielded |-> <<>>, nones |-> 0]

DocIdle ==
    /\ document = <<>>
    /\ doc_pc = "none"
    /\ iters = [id \in IterIds |-> NoIter]

\* No earlier read.
NoRun == [pc |-> "none", result |-> "none", document |-> <<>>, finish_order |-> <<>>]

NoStructure == [offset |-> 0, record_byte_size |-> 0, fields |-> <<>>]

\* QvdDocument::read is not running.
ReadIdle ==
    /\ file = [fault |-> "none", meta |-> NoStructure, data |-> <<>>]
    /\ pc = "idle"
    /\ qvd_structure = NoStructure
    /\ read_buf = <<>>
    /\ symbol_map = <<>>
    /\ row_section = <<>>
    /\ fields = <<>>
    /\ workers = <<>>
    /\ slots = <<>>
    /\ finish_order = <<>>
    /\ result = "none"
    /\ previous = NoRun

(***************************************************************************)
(* Bounds of the model.                                                    *)
(***************************************************************************)
MaxSymbols == 2
MaxRecords == 2
MaxDict == 2
MaxRows == 2
MaxCols == 2
MaxNones == 2

\* The width of isize and usize on the 64-bit targets the crate is built for.
IsizeBits == 64

(***************************************************************************)
(* Bytes and sequences.                                                    *)
(***************************************************************************)
Pow2(n) == 2 ^ n

\* Rust's s[from..to]: elements from (inclusive) to to (exclusive), 0-based.
Slice(s, from, to) == SubSeq(s, from + 1, to)

(***************************************************************************)
(* CellValue (types.rs).  Text carries the bytes of its String, Int its    *)
(* i32 as a one-element tuple, Float the 8 bytes of its f64 (little        *)
(* endian), Null nothing.                                                  *)
(***************************************************************************)
Text(bytes) == [tag |-> "Text", v |-> bytes]
Int32(n) == [tag |-> "Int", v |-> <<n>>]
Float(bytes) == [tag |-> "Float", v |-> bytes]
Null == [tag |-> "Null", v |-> <<>>]

\* f64 comparison: a NaN equals nothing, +0.0 equals -0.0.
IsNaN(f) ==
    /\ f[8] % 128 = 127
    /\ f[7] \div 16 = 15
    /\ (f[7] % 16 # 0 \/ \E k \in 1..6 : f[k] # 0)

IsZero(f) == f[8] % 128 = 0 /\ \A k \in 1..7 : f[k] = 0

FloatEq(a, b) == ~IsNaN(a) /\ ~IsNaN(b) /\ (a = b \/ (IsZero(a) /\ IsZero(b)))

\* #[derive(PartialEq)] on CellValue.
CellEq(a, b) ==
    /\ a.tag = b.tag
    /\ IF a.tag = "Float" THEN FloatEq(a.v, b.v) ELSE a.v = b.v

(***************************************************************************)
(* String::from_utf8_lossy: every maximal invalid part becomes U+FFFD.     *)
(***************************************************************************)
Replacement == <<239, 191, 189>>

SafeGet(s, k) == IF k <= Len(s) THEN s[k] ELSE 0

IsCont(b) == b \in 128..191

Utf8Width(b) ==
    IF b \in 194..223 THEN 2
    ELSE IF b \in 224..239 THEN 3
    ELSE IF b \in 240..244 THEN 4
    ELSE 0

Second3(b0, b1) ==
    \/ b0 = 224 /\ b1 \in 160..191
    \/ b0 \in 225..236 /\ b1 \in 128..191
    \/ b0 = 237 /\ b1 \in 128..159
    \/ b0 \in 238..239 /\ b1 \in 128..191

Second4(b0, b1) ==
    \/ b0 = 240 /\ b1 \in 144..191
    \/ b0 \in 241..243 /\ b1 \in 128..191
    \/ b0 = 244 /\ b1 \in 128..143

\* The first chunk of s: <<valid, number of bytes>>.
Utf8Chunk(s) ==
    LET b0 == s[1]
        w == Utf8Width(b0)
    IN  IF b0 < 128 THEN <<TRUE, 1>>
        ELSE IF w = 2 THEN
            IF IsCont(SafeGet(s, 2)) THEN <<TRUE, 2>> ELSE <<FALSE, 1>>
        ELSE IF w = 3 THEN
            IF ~Second3(b0, SafeGet(s, 2)) THEN <<FALSE, 1>>
            ELSE IF ~IsCont(SafeGet(s, 3)) THEN <<FALSE, 2>>
            ELSE <<TRUE, 3>>
        ELSE IF w = 4 THEN
            IF ~Second4(b0, SafeGet(s, 2)) THEN <<FALSE, 1>>
            ELSE IF ~IsCont(SafeGet(s, 3)) THEN <<FALSE, 2>>
            ELSE IF ~IsCont(SafeGet(s, 4)) THEN <<FALSE, 3>>
            ELSE <<TRUE, 4>>
        ELSE <<FALSE, 1>>

RECURSIVE Utf8Lossy(_)
Utf8Lossy(s) ==
    IF s = <<>> THEN <<>>
    ELSE LET c == Utf8Chunk(s)
             rest == SubSeq(s, c[2] + 1, Len(s))
         IN  (IF c[1] THEN SubSeq(s, 1, c[2]) ELSE Replacement) \o Utf8Lossy(rest)

(***************************************************************************)
(* The symbol scan: get_column_values_from_buf and its helpers.            *)
(* A scan state is [i, string_start, cell_values, pc].                     *)
(***************************************************************************)
\* i32::from_le_bytes
I32FromLe(p) ==
    LET low == p[1] + 256 * p[2] + 65536 * p[3]
    IN  IF p[4] >= 128 THEN low + 16777216 * (p[4] - 256)
        ELSE low + 16777216 * p[4]

\* &field_buf[a..b] panics when a > b or b > len.
SliceOk(buf, a, b) == a <= b /\ b <= Len(buf)

ScanInit == [i |-> 0, string_start |-> 0, cell_values |-> <<>>, pc |-> "run"]

ScanPanic(st) == [st EXCEPT !.pc = "panic"]

\* string_from_buf reading one byte late: the text loses its first byte.
string_from_buf_late(buf, start, end) ==
    Utf8Lossy(Slice(buf, IF start < end THEN start + 1 ELSE start, end))

\* string_from_buf: the lossy text of field_buf[string_start..end]
string_from_buf(buf, start, end) == Utf8Lossy(Slice(buf, start, end))

\* int_from_buf: the i32 of field_buf[pos + 1..pos + 5]
int_from_buf(buf, pos) == I32FromLe(Slice(buf, pos + 1, pos + 5))

\* float_from_buf: the f64 of field_buf[pos + 1..pos + 9]
float_from_buf(buf, pos) == Slice(buf, pos + 1, pos + 9)

\* The loop body skipping one payload byte less after 0x05: i += 4.
ScanStepShortSkip(buf, st) ==
    IF ~(st.i < Len(buf)) THEN [st EXCEPT !.pc = "done"]
    ELSE LET byte == buf[st.i + 1] IN
        CASE byte = 0 ->
                IF ~SliceOk(buf, st.string_start, st.i) THEN ScanPanic(st)
                ELSE [st EXCEPT
                        !.cell_values = Append(@, Text(string_from_buf(buf, st.string_start, st.i))),
                        !.i = @ + 1]
          [] byte = 1 ->
                IF ~SliceOk(buf, st.i + 1, st.i + 5) THEN ScanPanic(st)
                ELSE [st EXCEPT
                        !.cell_values = Append(@, Int32(int_from_buf(buf, st.i))),
                        !.i = @ + 5]
          [] byte = 2 ->
                IF ~SliceOk(buf, st.i + 1, st.i + 9) THEN ScanPanic(st)
                ELSE [st EXCEPT
                        !.cell_values = Append(@, Float(float_from_buf(buf, st.i))),
                        !.i = @ + 9]
          [] byte = 4 -> [st EXCEPT !.i = @ + 1, !.string_start = st.i + 1]
          [] byte = 5 -> [st EXCEPT !.i = @ + 4, !.string_start = st.i + 4]
          [] byte = 6 -> [st EXCEPT !.i = @ + 9, !.string_start = st.i + 9]
          [] OTHER -> [st EXCEPT !.i = @ + 1]

\* The loop body recording the string start one byte late after 0x04.
ScanStepLateStart(buf, st) ==
    IF ~(st.i < Len(buf)) THEN [st EXCEPT !.pc = "done"]
    ELSE LET byte == buf[st.i + 1] IN
        CASE byte = 0 ->
                IF ~SliceOk(buf, st.string_start, st.i) THEN ScanPanic(st)
                ELSE [st EXCEPT
                        !.cell_values = Append(@, Text(string_from_buf(buf, st.string_start, st.i))),
                        !.i = @ + 1]
          [] byte = 1 ->
                IF ~SliceOk(buf, st.i + 1, st.i + 5) THEN ScanPanic(st)
                ELSE [st EXCEPT
                        !.cell_values = Append(@, Int32(int_from_buf(buf, st.i))),
                        !.i = @ + 5]
          [] byte = 2 ->
                IF ~SliceOk(buf, st.i + 1, st.i + 9) THEN ScanPanic(st)
                ELSE [st EXCEPT
                        !.cell_values = Append(@, Float(float_from_buf(buf, st.i))),
                        !.i = @ + 9]
          [] byte = 4 -> [st EXCEPT !.i = @ + 1, !.string_start = st.i + 2]
          [] byte = 5 -> [st EXCEPT !.i = @ + 5, !.string_start = st.i + 5]
          [] byte = 6 -> [st EXCEPT !.i = @ + 9, !.string_start = st.i + 9]
          [] OTHER -> [st EXCEPT !.i = @ + 1]

\* One evaluation of the while condition and, if it holds, of the loop body.
ScanStep(buf, st) ==
    IF ~(st.i < Len(buf)) THEN [st EXCEPT !.pc = "done"]
    ELSE LET byte == buf[st.i + 1] IN
        CASE byte = 0 ->
                IF ~SliceOk(buf, st.string_start, st.i) THEN ScanPanic(st)
                ELSE [st EXCEPT
                        !.cell_values = Append(@, Text(string_from_buf(buf, st.string_start, st.i))),
                        !.i = @ + 1]
          [] byte = 1 ->
                IF ~SliceOk(buf, st.i + 1, st.i + 5) THEN ScanPanic(st)
                ELSE [st EXCEPT
                        !.cell_values = Append(@, Int32(int_from_buf(buf, st.i))),
                        !.i = @ + 5]
          [] byte = 2 ->
                IF ~SliceOk(buf, st.i + 1, st.i + 9) THEN ScanPanic(st)
                ELSE [st EXCEPT
                        !.cell_values = Append(@, Float(float_from_buf(buf, st.i))),
                        !.i = @ + 9]
          [] byte = 4 -> [st EXCEPT !.i = @ + 1, !.string_start = st.i + 1]
          [] byte = 5 -> [st EXCEPT !.i = @ + 5, !.string_start = st.i + 5]
          [] byte = 6 -> [st EXCEPT !.i = @ + 9, !.string_start = st.i + 9]
          [] OTHER -> [st EXCEPT !.i = @ + 1]

RECURSIVE ScanRun(_, _)
ScanRun(buf, st) == IF st.pc = "run" THEN ScanRun(buf, ScanStep(buf, st)) ELSE st

\* get_column_values_from_buf as a function: [ok, values]; ok is FALSE on a panic.
get_column_values_from_buf(buf) ==
    LET st == ScanRun(buf, ScanInit)
    IN  [ok |-> st.pc = "done", values |-> st.cell_values]

(***************************************************************************)
(* Encoded symbols, as a QVD writer lays them out in a symbol segment.     *)
(* A symbol is [lead, payload, text]: lead 1 (Int, 4 payload bytes),       *)
(* 2 (Float, 8), 4 / 5 / 6 (Text with 0 / 4 / 8 payload bytes, then the    *)
(* text bytes and a 0 terminator).                                         *)
(***************************************************************************)
IntPayloads == { <<10, 0, 0, 0>>, <<4, 0, 6, 255>> }

FloatPayloads == { <<0, 0, 0, 0, 0, 64, 122, 64>>, <<1, 2, 5, 0, 0, 0, 248, 127>> }

Payloads5 == { <<42, 65, 80, 1>> }

Payloads6 == { <<0, 4, 1, 1, 1, 1, 1, 2>> }

Texts ==
    { <<>>, <<65>>, <<114, 117>>, <<195, 164>>,     \* "", "A", "ru", "a-umlaut"
      <<255>>, <<65, 195>>,                         \* not UTF-8
      <<65, 4, 66>>, <<1, 49, 50, 51, 52>>, <<65, 2>>, <<5>> }  \* control bytes inside

SymbolSet ==
    { [lead |-> 1, payload |-> p, text |-> <<>>] : p \in IntPayloads }
    \cup { [lead |-> 2, payload |-> p, text |-> <<>>] : p \in FloatPayloads }
    \cup { [lead |-> 4, payload |-> <<>>, text |-> t] : t \in Texts }
    \cup { [lead |-> 5, payload |-> p, text |-> t] : p \in Payloads5, t \in Texts }
    \cup { [lead |-> 6, payload |-> p, text |-> t] : p \in Payloads6, t \in Texts }

IsTextSymbol(s) == s.lead \in {4, 5, 6}

EncodeSymbol(s) ==
    <<s.lead>> \o s.payload \o (IF IsTextSymbol(s) THEN s.text \o <<0>> ELSE <<>>)

RECURSIVE EncodeSymbols(_)
EncodeSymbols(ss) ==
    IF ss = <<>> THEN <<>> ELSE EncodeSymbol(Head(ss)) \o EncodeSymbols(Tail(ss))

SymbolLists == UNION { [1..n -> SymbolSet] : n \in 0..MaxSymbols }

(***************************************************************************)
(* The row index decoder: get_row_indexes and bitslice_to_u32.             *)
(***************************************************************************)
Min(a, b) == IF a < b THEN a ELSE b

\* chunk.reverse() left out: the bytes stay in file order.
ReverseBytesNot(chunk) == chunk

\* chunk.reverse()
ReverseBytes(chunk) == [k \in 1..Len(chunk) |-> chunk[Len(chunk) + 1 - k]]

\* BitSlice::<Msb0, u8>::from_slice: 8 bits a byte, the most significant first.
BitsMsb0(bytes) ==
    [k \in 1..(8 * Len(bytes)) |->
        (bytes[((k - 1) \div 8) + 1] \div Pow2(7 - ((k - 1) % 8))) % 2]

\* The isize accumulator of the fold, as its IsizeBits bits, the most
\* significant first.  (acc << 1) | bit drops the top bit and appends bit.
AccZero == [k \in 1..IsizeBits |-> 0]

ShiftOr(acc, bit) == Tail(acc) \o <<bit>>

\* slice.iter().fold(acc, ...): the accumulator after the bits of slice, in
\* slice order.  Folding a slice is folding its first half, then its second;
\* the test on acc makes TLC compute the accumulator before it goes on, which
\* keeps the evaluation shallow.
RECURSIVE FoldBits(_, _)
FoldBits(acc, slice) ==
    IF Len(acc) = 0 \/ slice = <<>> THEN acc
    ELSE IF Len(slice) = 1 THEN ShiftOr(acc, slice[1])
    ELSE LET h == Len(slice) \div 2
         IN  FoldBits(FoldBits(acc, SubSeq(slice, 1, h)),
                      SubSeq(slice, h + 1, Len(slice)))

\* The number a bit string writes after the digits of n, the most significant
\* bit first.
RECURSIVE Horner(_, _)
Horner(n, bits) ==
    IF n < 0 \/ bits = <<>> THEN n
    ELSE IF Len(bits) = 1 THEN 2 * n + bits[1]
    ELSE LET h == Len(bits) \div 2
         IN  Horner(Horner(n, SubSeq(bits, 1, h)), SubSeq(bits, h + 1, Len(bits)))

Unsigned(bits) == Horner(0, bits)

\* The two's complement value of the accumulator.
IsizeValue(acc) ==
    IF acc[1] = 0 THEN Unsigned(acc)
    ELSE -Unsigned([k \in 1..Len(acc) |-> 1 - acc[k]]) - 1

\* bitslice_to_u32
bitslice_to_u32(slice) == IsizeValue(FoldBits(AccZero, slice))

\* buf.chunks(record_byte_size): the number of chunks and chunk k (from 0);
\* the last chunk is shorter when the length is no multiple of the size.
NumChunks(buf, size) == (Len(buf) + size - 1) \div size

\* Windows that start one byte early: each takes the last byte of the
\* record before it.
ChunkFromByteBefore(buf, size, k) ==
    Slice(buf, IF k = 0 THEN 0 ELSE k * size - 1, Min((k + 1) * size, Len(buf)))

Chunk(buf, size, k) == Slice(buf, k * size, Min((k + 1) * size, Len(buf)))

\* The body of the for loop for one chunk: [ok, index]; ok is FALSE when a
\* subtraction underflows or the bit range is out of the chunk (a panic, in
\* debug and in release builds alike: a wrapped start or end is out of range).
ChunkIndex(chunk, field) ==
    LET bits == BitsMsb0(ReverseBytes(chunk))
        start == Len(bits) - field.bit_offset
        end == start - field.bit_width
    IN  IF field.bit_offset > Len(bits) \/ field.bit_width > start
        THEN [ok |-> FALSE, index |-> 0]
        ELSE [ok |-> TRUE,
              index |-> bitslice_to_u32(Slice(bits, end, start)) + field.bias]

\* get_row_indexes as a function: [ok, indexes]; ok is FALSE on a panic.
get_row_indexes(buf, field, size) ==
    IF size = 0 THEN [ok |-> FALSE, indexes |-> <<>>]
    ELSE LET n == NumChunks(buf, size)
             each == [k \in 1..n |-> ChunkIndex(Chunk(buf, size, k - 1), field)]
         IN  [ok |-> \A k \in 1..n : each[k].ok,
              indexes |-> [k \in 1..n |-> each[k].index]]

(***************************************************************************)
(* Row sections and field headers the decoder is run on.                   *)
(***************************************************************************)
\* The record of tests::test_get_row_indexes.
TestRecord == <<0, 20, 0, 17, 1, 34, 2, 51, 19, 52, 36, 53>>

Records(size) ==
    CASE size = 1 -> { <<0>>, <<5>>, <<170>>, <<255>> }
      [] size = 2 -> { <<0, 0>>, <<5, 20>>, <<170, 1>>, <<255, 255>> }
      [] size = 8 -> { <<255, 255, 255, 255, 255, 255, 255, 255>>,
                       <<254, 255, 255, 255, 255, 255, 255, 255>>,
                       <<5, 0, 0, 0, 0, 0, 0, 0>>,
                       <<255, 255, 255, 255, 255, 255, 255, 127>> }
      [] size = 12 -> { TestRecord }
      [] OTHER -> {}

RecordSizes == {0, 1, 2, 8, 12}

\* A trailing partial record: nothing, or the first bytes of a record.
Partials(size) ==
    {<<>>} \cup { SubSeq(r, 1, n) : r \in Records(size), n \in 1..(size - 1) }

RECURSIVE ConcatAll(_)
ConcatAll(ss) == IF ss = <<>> THEN <<>> ELSE Head(ss) \o ConcatAll(Tail(ss))

RowSections(size) ==
    IF size = 0 THEN { <<>>, <<5>> }
    ELSE { ConcatAll(rs) \o p :
            rs \in UNION { [1..n -> Records(size)] : n \in 0..MaxRecords },
            p \in { q \in Partials(size) : Len(q) <= 1 } }

FieldHeaders ==
    [bit_offset : {0, 3, 10}, bit_width : {0, 3, 8, 63, 64}, bias : {-2, 0}]

\* TLC computes with 32-bit integers: the model runs the decoder on the inputs
\* whose indexes fit, that is whose accumulator is the sign extension of its
\* low 31 bits.
FitsModel(acc) == \A k \in 1..(IsizeBits - 30) : acc[k] = acc[1]

IndexFits(chunk, field) ==
    LET bits == BitsMsb0(ReverseBytes(chunk))
        start == Len(bits) - field.bit_offset
        end == start - field.bit_width
    IN  (field.bit_offset <= Len(bits) /\ field.bit_width <= start)
            => FitsModel(FoldBits(AccZero, Slice(bits, end, start)))

InputFits(buf, field, size) ==
    size > 0 => \A k \in 0..(NumChunks(buf, size) - 1) :
                    IndexFits(Chunk(buf, size, k), field)

(***************************************************************************)
(* get_row_indexes as a state machine: one action per loop iteration.      *)
(***************************************************************************)
InitRows ==
    /\ ReadIdle
    /\ ScanIdle
    /\ ColumnIdle
    /\ DocIdle
    /\ record_byte_size \in RecordSizes
    /\ row_buf \in RowSections(record_byte_size)
    /\ row_field \in FieldHeaders
    /\ InputFits(row_buf, row_field, record_byte_size)
    /\ indexes = <<>>
    /\ chunk_no = 0
    /\ rows_pc = "start"

\* Vec::with_capacity(buf.len() / record_byte_size), buf.chunks(record_byte_size)
RowsStart ==
    /\ rows_pc = "start"
    /\ rows_pc' = IF record_byte_size = 0 THEN "panic" ELSE "loop"
    /\ UNCHANGED <<row_buf, row_field, record_byte_size, indexes, chunk_no>>
    /\ UNCHANGED <<scanVars, colVars, docVars, readVars, runVars>>

\* One chunk of the for loop.
RowsChunk ==
    /\ rows_pc = "loop"
    /\ chunk_no < NumChunks(row_buf, record_byte_size)
    /\ LET r == ChunkIndex(Chunk(row_buf, record_byte_size, chunk_no), row_field)
       IN  IF r.ok
           THEN /\ indexes' = Append(indexes, r.index)
                /\ chunk_no' = chunk_no + 1
                /\ rows_pc' = "loop"
           ELSE /\ rows_pc' = "panic"
                /\ UNCHANGED <<indexes, chunk_no>>
    /\ UNCHANGED <<row_buf, row_field, record_byte_size>>
    /\ UNCHANGED <<scanVars, colVars, docVars, readVars, runVars>>

\* The chunks are exhausted: indexes is returned.
RowsReturn ==
    /\ rows_pc = "loop"
    /\ chunk_no = NumChunks(row_buf, record_byte_size)
    /\ rows_pc' = "done"
    /\ UNCHANGED <<row_buf, row_field, record_byte_size, indexes, chunk_no>>
    /\ UNCHANGED <<scanVars, colVars, docVars, readVars, runVars>>

NextRows == RowsStart \/ RowsChunk \/ RowsReturn

SpecRows == InitRows /\ [][NextRows]_vars

(***************************************************************************)
(* C2                                                                      *)
(***************************************************************************)
\* Bit k (from 0, the least significant) of a natural number below 2^31.
NatBit(n, k) == IF k > 30 THEN 0 ELSE (n \div Pow2(k)) % 2

\* n is the unsigned value of a bit string given most / least significant
\* bit first.
IsValueMsbFirst(n, bits) ==
    n >= 0 /\ \A k \in 1..Len(bits) : NatBit(n, Len(bits) - k) = bits[k]

IsValueLsbFirst(n, bits) ==
    n >= 0 /\ \A k \in 1..Len(bits) : NatBit(n, k - 1) = bits[k]

\* Bit m (from 0, the most significant first) of the byte-reversed record.
ReversedRecordBit(record, m) ==
    (record[Len(record) - (m \div 8)] \div Pow2(7 - (m % 8))) % 2

\* The bits of range [total - bit_offset - bit_width, total - bit_offset).
RangeBits(record, f) ==
    [k \in 1..f.bit_width |->
        ReversedRecordBit(record, 8 * Len(record) - f.bit_offset - f.bit_width + k - 1)]

\* Bit j (from 0) of the record read as a little-endian unsigned integer, and
\* the bits of (that integer >> bit_offset) mod 2^bit_width, the lowest first.
LittleEndianBit(record, j) == (record[(j \div 8) + 1] \div Pow2(j % 8)) % 2

ShiftedBits(record, f) ==
    [k \in 1..f.bit_width |-> LittleEndianBit(record, f.bit_offset + k - 1)]

FieldInRecord(f, size) == f.bit_offset + f.bit_width <= 8 * size

EntryAsClaimed(k) ==
    LET record == Chunk(row_buf, record_byte_size, k - 1)
        raw == indexes[k] - row_field.bias
    IN  /\ IsValueMsbFirst(raw, RangeBits(record, row_field))
        /\ IsValueLsbFirst(raw, ShiftedBits(record, row_field))

TestVectorInput ==
    /\ row_buf = TestRecord
    /\ record_byte_size = 12
    /\ row_field = [bit_offset |-> 10, bit_width |-> 3, bias |-> 0]

\* C2 as claimed: for every record and every field with bit_offset +
\* bit_width <= record_byte_size * 8, the entry is bias + the unsigned value of
\* the bits of range [total - bit_offset - bit_width, total - bit_offset) of the
\* byte-reversed record, which is ((the little-endian record) >> bit_offset)
\* mod 2^bit_width + bias; the test record yields [5].
C2_Claimed ==
    /\ \A k \in 1..Len(indexes) :
        (Len(Chunk(row_buf, record_byte_size, k - 1)) = record_byte_size
            /\ FieldInRecord(row_field, record_byte_size)) => EntryAsClaimed(k)
    /\ (TestVectorInput /\ rows_pc = "done") => indexes = <<5>>

\* C2 amended: the same for every field with bit_width < 64: the fold
\* accumulates in an isize and keeps the low 64 bits of a wider range, read as
\* a signed number.
C2_IndexIsBitRange ==
    /\ \A k \in 1..Len(indexes) :
        (Len(Chunk(row_buf, record_byte_size, k - 1)) = record_byte_size
            /\ FieldInRecord(row_field, record_byte_size)
            /\ row_field.bit_width < IsizeBits) => EntryAsClaimed(k)
    /\ (TestVectorInput /\ rows_pc = "done") => indexes = <<5>>

C2_Witness == TestVectorInput /\ rows_pc = "done" /\ indexes = <<5>>

(***************************************************************************)
(* C17                                                                     *)
(***************************************************************************)
\* The row section with record j (from 1) replaced by another record.
WithRecord(buf, size, j, record) ==
    SubSeq(buf, 1, (j - 1) * size) \o record \o SubSeq(buf, j * size + 1, Len(buf))

\* C17: for a row section of n * record_byte_size bytes and a field whose
\* bit range fits in a record, get_row_indexes returns n entries in record
\* order, and entry k stays the same when any other record is replaced (by a
\* record whose index fits the model's integers).
C17_RecordsIndependent ==
    (rows_pc \in {"done", "panic"}
        /\ record_byte_size > 0
        /\ Len(row_buf) % record_byte_size = 0
        /\ FieldInRecord(row_field, record_byte_size)) =>
        LET n == Len(row_buf) \div record_byte_size IN
        /\ rows_pc = "done"
        /\ Len(indexes) = n
        /\ \A k \in 1..n :
              indexes[k] = ChunkIndex(SubSeq(row_buf, (k - 1) * record_byte_size + 1,
                                             k * record_byte_size), row_field).index
        /\ \A k \in 1..n : \A j \in (1..n) \ {k} :
              \A record \in { r \in Records(record_byte_size) : IndexFits(r, row_field) } :
                  LET other == WithRecord(row_buf, record_byte_size, j, record)
                  IN  get_row_indexes(other, row_field, record_byte_size).indexes[k]
                        = indexes[k]

\* Two 1-byte records, the low three bits of each.
C17_Witness ==
    /\ rows_pc = "done"
    /\ record_byte_size = 1
    /\ row_buf = <<5, 170>>
    /\ row_field = [bit_offset |-> 0, bit_width |-> 3, bias |-> 0]
    /\ indexes = <<5, 2>>

(***************************************************************************)
(* Column (types.rs, column.rs): the value of a row and the queries.       *)
(* A resolution is [ok, value, get]: ok is FALSE when symbols.get(i)       *)
(* .unwrap() panics, get is the set of Dictionary positions it asked for.  *)
(***************************************************************************)
\* The match taking -2 alone for the null sentinel.
ResolveSentinel(symbols, idx) ==
    IF idx = -2 THEN [ok |-> TRUE, value |-> Null, get |-> {}]
    ELSE IF idx >= 0 /\ idx < Len(symbols)
         THEN [ok |-> TRUE, value |-> symbols[idx + 1], get |-> {idx}]
         ELSE [ok |-> FALSE, value |-> Null, get |-> {idx}]

\* match idx { i if i < 0 => Null, i => self.symbols.get(i as usize).unwrap() }
Resolve(symbols, idx) ==
    IF idx < 0 THEN [ok |-> TRUE, value |-> Null, get |-> {}]
    ELSE IF idx < Len(symbols)
         THEN [ok |-> TRUE, value |-> symbols[idx + 1], get |-> {idx}]
         ELSE [ok |-> FALSE, value |-> Null, get |-> {idx}]

\* The outcome of mapping a resolution over rows: [ok, values, gets]; a panic
\* in any row leaves no values.
Collected(each) ==
    LET ok == \A k \in 1..Len(each) : each[k].ok
    IN  [ok |-> ok,
         values |-> IF ok THEN [k \in 1..Len(each) |-> each[k].value] ELSE <<>>,
         gets |-> [k \in 1..Len(each) |-> each[k].get]]

\* Column::as_values
as_values(c) ==
    Collected([k \in 1..Len(c.indexes) |-> Resolve(c.symbols, c.indexes[k])])

\* Column::into_values (types.rs and column.rs): the same values, cloned
into_values(c) ==
    Collected([k \in 1..Len(c.indexes) |-> Resolve(c.symbols, c.indexes[k])])

\* Column::indexes_to_values: self.indexes.get(idx) is None beyond the rows
indexes_to_values(c, row_indexes) ==
    Collected([k \in 1..Len(row_indexes) |->
        IF row_indexes[k] < Len(c.indexes)
        THEN Resolve(c.symbols, c.indexes[row_indexes[k] + 1])
        ELSE [ok |-> TRUE, value |-> Null, get |-> {}]])

\* Column::cell_value: [ok, some, value, get]
cell_value(c, row_index) ==
    IF row_index < Len(c.indexes)
    THEN LET r == Resolve(c.symbols, c.indexes[row_index + 1])
         IN  [ok |-> r.ok, some |-> r.ok, value |-> r.value, get |-> r.get]
    ELSE [ok |-> TRUE, some |-> FALSE, value |-> Null, get |-> {}]

\* The Dictionary search stopping at the first equal symbol.
MatchingSymbolsFirst(symbols, cell_value_) ==
    LET all == { k \in 0..(Len(symbols) - 1) : CellEq(symbols[k + 1], cell_value_) }
    IN  { k \in all : \A j \in all : k <= j }

\* find_row_indexes, first pass: the Dictionary positions equal to the value
MatchingSymbols(symbols, cell_value_) ==
    { k \in 0..(Len(symbols) - 1) : CellEq(symbols[k + 1], cell_value_) }

\* find_row_indexes, second pass: the rows, in row order, whose index is among
\* the positions found
RECURSIVE RowsAmong(_, _, _)
RowsAmong(idxs, rows, r) ==
    IF r >= Len(idxs) THEN <<>>
    ELSE (IF idxs[r + 1] \in rows THEN <<r>> ELSE <<>>) \o RowsAmong(idxs, rows, r + 1)

\* The rows, in row order, whose resolved value equals the value.
find_row_indexes_by_value(c, cell_value_) ==
    LET idxs == c.indexes
        F[r \in 0..Len(idxs)] ==
            IF r = Len(idxs) THEN <<>>
            ELSE (IF CellEq(Resolve(c.symbols, idxs[r + 1]).value, cell_value_)
                  THEN <<r>> ELSE <<>>) \o F[r + 1]
    IN  F[0]

\* Column::find_row_indexes
find_row_indexes(c, cell_value_) ==
    RowsAmong(c.indexes, MatchingSymbols(c.symbols, cell_value_), 0)

(***************************************************************************)
(* Columns and query arguments.                                            *)
(***************************************************************************)
NaN == <<0, 0, 0, 0, 0, 0, 248, 127>>
PlusZero == <<0, 0, 0, 0, 0, 0, 0, 0>>
MinusZero == <<0, 0, 0, 0, 0, 0, 0, 128>>

\* What a Dictionary holds: the symbol scan pushes Text, Int and Float only.
DictValues == { Text(<<81, 49>>), Int32(7), Float(NaN), Float(PlusZero), Float(MinusZero) }

IndexValues == {-2, -1, 0, 1, 2}

Columns ==
    [header : {"Quarter"},
     symbols : UNION { [1..n -> DictValues] : n \in 0..MaxDict },
     indexes : UNION { [1..n -> IndexValues] : n \in 0..MaxRows }]

RowLists == { <<>>, <<0>>, <<1, 0>>, <<0, 0>>, <<2>>, <<3, 1>> }

InitColumn ==
    /\ ReadIdle
    /\ ScanIdle
    /\ RowsIdle
    /\ DocIdle
    /\ column \in Columns
    /\ query = NoQuery

AsValues ==
    /\ LET r == as_values(column)
       IN  query' = [NoQuery EXCEPT !.op = "as_values", !.ok = r.ok,
                                    !.values = r.values, !.gets = r.gets]
    /\ UNCHANGED column

IntoValues ==
    /\ LET r == into_values(column)
       IN  query' = [NoQuery EXCEPT !.op = "into_values", !.ok = r.ok,
                                    !.values = r.values, !.gets = r.gets]
    /\ UNCHANGED column

IndexesToValues ==
    /\ \E row_indexes \in RowLists :
        LET r == indexes_to_values(column, row_indexes)
        IN  query' = [NoQuery EXCEPT !.op = "indexes_to_values", !.arg = row_indexes,
                                     !.ok = r.ok, !.values = r.values, !.gets = r.gets]
    /\ UNCHANGED column

CellValueAt ==
    /\ \E row_index \in 0..(MaxRows + 1) :
        LET r == cell_value(column, row_index)
        IN  query' = [NoQuery EXCEPT !.op = "cell_value", !.arg = <<row_index>>,
                                     !.ok = r.ok, !.some = r.some,
                                     !.values = IF r.some THEN <<r.value>> ELSE <<>>,
                                     !.gets = <<r.get>>]
    /\ UNCHANGED column

FindRowIndexes ==
    /\ \E v \in DictValues \cup {Null, Text(<<81, 50>>)} :
        query' = [NoQuery EXCEPT !.op = "find_row_indexes", !.arg = <<v>>,
                                 !.rows = find_row_indexes(column, v)]
    /\ UNCHANGED column

\* The queries take &self and leave the Column as it is: a behaviour makes
\* one query on its Column.
NextColumn ==
    /\ query.op = "none"
    /\ (AsValues \/ IntoValues \/ IndexesToValues \/ CellValueAt \/ FindRowIndexes)
    /\ UNCHANGED <<scanVars, rowVars, docVars, readVars, runVars>>

SpecColumn == InitColumn /\ [][NextColumn]_vars

(***************************************************************************)
(* C1                                                                      *)
(***************************************************************************)
\* Row r of c resolves to a value equal to v.
RowEquals(c, r, v) ==
    LET res == Resolve(c.symbols, c.indexes[r + 1])
    IN  res.ok /\ CellEq(res.value, v)

StrictlyAscending(seq) == \A k \in 1..(Len(seq) - 1) : seq[k] < seq[k + 1]

\* C1: for every column and every non-null value v, find_row_indexes(v) returns
\* exactly the rows whose resolved value equals v, each once, in strictly
\* ascending order, also when the Dictionary holds v at several positions.
C1_FindRowIndexesExact ==
    (query.op = "find_row_indexes" /\ query.arg[1].tag # "Null") =>
        /\ StrictlyAscending(query.rows)
        /\ { query.rows[k] : k \in 1..Len(query.rows) }
            = { r \in 0..(Len(column.indexes) - 1) : RowEquals(column, r, query.arg[1]) }

\* The value sits at Dictionary positions 0 and 1 and both are referenced.
C1_Witness ==
    /\ query.op = "find_row_indexes"
    /\ query.arg[1] = Int32(7)
    /\ column.symbols = <<Int32(7), Int32(7)>>
    /\ column.indexes = <<1, 0>>
    /\ query.rows = <<0, 1>>

(***************************************************************************)
(* C4                                                                      *)
(***************************************************************************)
\* The row an output position of the last query stands for.
QueriedRow(k) ==
    CASE query.op \in {"as_values", "into_values"} -> k - 1
      [] query.op \in {"indexes_to_values", "cell_value"} -> query.arg[k]

IsResolution == query.op \in {"as_values", "into_values", "indexes_to_values", "cell_value"}

\* C4: for every row whose index is negative, every resolution path
\* (as_values, into_values, indexes_to_values, cell_value) yields Null and
\* asks the Dictionary for nothing, also when the Dictionary is empty.
C4_NegativeIsNull ==
    IsResolution =>
        \A k \in 1..Len(query.gets) :
            (QueriedRow(k) < Len(column.indexes)
                /\ column.indexes[QueriedRow(k) + 1] < 0) =>
                    /\ query.gets[k] = {}
                    /\ (query.ok => query.values[k] = Null)

\* cell_value on a row of index -1 with an empty Dictionary gives Some(Null).
C4_Witness ==
    /\ query.op = "cell_value"
    /\ column.symbols = <<>>
    /\ column.indexes = <<-2, -1>>
    /\ query.arg = <<1>>
    /\ query.some
    /\ query.values = <<Null>>

(***************************************************************************)
(* C12, C13                                                                *)
(***************************************************************************)
\* What the resolution rules give for a row position of a column: the value
\* of the row's index inside the row range, Null beyond it.
ValueAt(c, row_index) ==
    IF row_index < Len(c.indexes)
    THEN Resolve(c.symbols, c.indexes[row_index + 1]).value
    ELSE Null

\* C12: indexes_to_values(rows) returns one value per requested row
\* position, in the order requested: the resolved value for a position
\* inside the row range, Null for a position at or beyond the row count.
C12_Claimed ==
    query.op = "indexes_to_values" =>
        /\ query.ok
        /\ Len(query.values) = Len(query.arg)
        /\ \A k \in 1..Len(query.arg) : query.values[k] = ValueAt(column, query.arg[k])

\* C13: cell_value(row) returns None exactly when row >= the row count, and
\* otherwise Some of the resolved value of the row, Some(Null) for a
\* negative index.
C13_Claimed ==
    query.op = "cell_value" =>
        /\ query.ok
        /\ query.some <=> query.arg[1] < Len(column.indexes)
        /\ query.some => query.values = <<ValueAt(column, query.arg[1])>>

(***************************************************************************)
(* QvdDocument (types.rs): rows, rows_by_indexes and RowIter.              *)
(* A RowIter is [live, kind, arg, values, rows_total, index] and, for the  *)
(* record of what it gave, yielded (the rows of its Some results) and      *)
(* nones (the number of its None results).                                 *)
(***************************************************************************)
\* rows_total taken from the number of columns.
RowsTotalOfColumns(values) == Len(values)

\* let rows_total = values[0].len();
RowsTotal(values) == Len(values[1])

\* The RowIter built from the per-column values: [ok, iter]; values[0] panics
\* on a Document without columns, a panic in a column is a panic of the call.
MakeIter(kind, arg, each) ==
    IF (\E k \in 1..Len(each) : ~each[k].ok) \/ Len(each) = 0
    THEN [ok |-> FALSE, iter |-> NoIter]
    ELSE LET values == [k \in 1..Len(each) |-> each[k].values]
         IN  [ok |-> TRUE,
              iter |-> [live |-> TRUE, kind |-> kind, arg |-> arg, values |-> values,
                        rows_total |-> RowsTotal(values), index |-> 0,
                        yielded |-> <<>>, nones |-> 0]]

\* QvdDocument::rows
rows(columns) ==
    MakeIter("rows", <<>>, [k \in 1..Len(columns) |-> as_values(columns[k])])

\* QvdDocument::rows_by_indexes
rows_by_indexes(columns, row_indexes) ==
    MakeIter("rows_by_indexes", row_indexes,
             [k \in 1..Len(columns) |-> indexes_to_values(columns[k], row_indexes)])

\* RowIter::next: [ok, some, row, iter]; col.get(index).unwrap() panics on a
\* column shorter than rows_total.
next(it) ==
    IF it.index < it.rows_total
    THEN IF \E k \in 1..Len(it.values) : it.index >= Len(it.values[k])
         THEN [ok |-> FALSE, some |-> FALSE, row |-> <<>>, iter |-> it]
         ELSE [ok |-> TRUE, some |-> TRUE,
               row |-> [k \in 1..Len(it.values) |-> it.values[k][it.index + 1]],
               iter |-> [it EXCEPT !.index = @ + 1]]
    ELSE [ok |-> TRUE, some |-> FALSE, row |-> <<>>, iter |-> it]

\* let mut it = doc.rows();
Rows(id) ==
    /\ doc_pc = "ready"
    /\ LET r == rows(document)
       IN  IF r.ok
           THEN iters' = [iters EXCEPT ![id] = r.iter] /\ UNCHANGED doc_pc
           ELSE doc_pc' = "panic" /\ UNCHANGED iters
    /\ UNCHANGED document

\* let mut it = doc.rows_by_indexes(&row_indexes);
RowsByIndexes(id, row_indexes) ==
    /\ doc_pc = "ready"
    /\ LET r == rows_by_indexes(document, row_indexes)
       IN  IF r.ok
           THEN iters' = [iters EXCEPT ![id] = r.iter] /\ UNCHANGED doc_pc
           ELSE doc_pc' = "panic" /\ UNCHANGED iters
    /\ UNCHANGED document

\* One cursor for all iterators: next() on one advances every live one.
IterNextAll(id) ==
    /\ doc_pc = "ready"
    /\ iters[id].live
    /\ iters[id].nones < MaxNones
    /\ iters' = [j \in IterIds |->
                   IF iters[j].live /\ next(iters[j]).ok /\ next(iters[j]).some
                   THEN [next(iters[j]).iter EXCEPT !.yielded = Append(@, next(iters[j]).row)]
                   ELSE IF j = id THEN [iters[j] EXCEPT !.nones = @ + 1]
                   ELSE iters[j]]
    /\ UNCHANGED <<document, doc_pc>>

\* it.next(); the caller stops asking after MaxNones None results.
IterNext(id) ==
    /\ doc_pc = "ready"
    /\ iters[id].live
    /\ iters[id].nones < MaxNones
    /\ LET r == next(iters[id])
       IN  IF ~r.ok THEN doc_pc' = "panic" /\ UNCHANGED iters
           ELSE /\ iters' = [iters EXCEPT ![id] =
                        IF r.some THEN [r.iter EXCEPT !.yielded = Append(@, r.row)]
                        ELSE [r.iter EXCEPT !.nones = @ + 1]]
                /\ UNCHANGED doc_pc
    /\ UNCHANGED document

(***************************************************************************)
(* Documents: the columns of a Document have one length (read_qvd decodes  *)
(* every field from the same row section).                                 *)
(***************************************************************************)
DocColumns ==
    { [header |-> "Month", symbols |-> <<Text(<<49>>), Text(<<50>>)>>, indexes |-> <<0, 1>>],
      [header |-> "some_null", symbols |-> <<Int32(7), Float(PlusZero)>>, indexes |-> <<1, -2>>],
      [header |-> "all Null", symbols |-> <<>>, indexes |-> <<-2, -2>>],
      [header |-> "bad", symbols |-> <<Int32(7)>>, indexes |-> <<0, 1>>] }

\* A column cut to its first n rows.
Truncated(c, n) == [c EXCEPT !.indexes = SubSeq(c.indexes, 1, n)]

Documents ==
    { [k \in 1..Len(cs) |-> Truncated(cs[k], n)] :
        cs \in UNION { [1..m -> DocColumns] : m \in 0..MaxCols }, n \in 0..2 }

\* The position lists asked of a Document: none, reordered, past the end.
DocRowLists == { <<>>, <<1, 0>>, <<3, 1>> }

InitDoc ==
    /\ ScanIdle
    /\ ReadIdle
    /\ RowsIdle
    /\ ColumnIdle
    /\ document \in Documents
    /\ doc_pc = "ready"
    /\ iters = [id \in IterIds |-> NoIter]

NextDoc ==
    /\ \E id \in IterIds :
        \/ Rows(id)
        \/ \E row_indexes \in DocRowLists : RowsByIndexes(id, row_indexes)
        \/ IterNext(id)
    /\ UNCHANGED <<scanVars, rowVars, colVars, readVars, runVars>>

SpecDoc == InitDoc /\ [][NextDoc]_vars

(***************************************************************************)
(* C10                                                                     *)
(***************************************************************************)
\* The resolved values of row r across all columns, in column order.
RowOf(columns, r) ==
    [k \in 1..Len(columns) |-> Resolve(columns[k].symbols, columns[k].indexes[r + 1]).value]

RowCount(columns) == Len(columns[1].indexes)

\* C10: the iterator of rows() yields rows 0, 1, ..., row-count - 1 in that
\* order, item k being the resolved values of row k across the columns in
\* column order, and after the last row every next() is None.
C10_RowsInOrder ==
    \A id \in IterIds :
        (iters[id].live /\ iters[id].kind = "rows") =>
            LET it == iters[id] IN
            /\ Len(it.yielded) <= RowCount(document)
            /\ it.index = Len(it.yielded)
            /\ \A k \in 1..Len(it.yielded) : it.yielded[k] = RowOf(document, k - 1)
            /\ (it.nones > 0 => Len(it.yielded) = RowCount(document))

C10_Witness ==
    /\ iters[1].live /\ iters[1].kind = "rows"
    /\ Len(document) = 2
    /\ document[1].header = "some_null" /\ document[2].header = "Month"
    /\ Len(iters[1].yielded) = 2
    /\ iters[1].nones = MaxNones

(***************************************************************************)
(* C16                                                                     *)
(***************************************************************************)
\* C16: each rows() that returns an iterator returns a fresh one at row 0,
\* and a step of one RowIter (next, or its replacement by a new one) leaves
\* every other RowIter and the Document's columns as they are.
C16_FreshAndIndependent ==
    [][/\ document' = document
       /\ \A id \in IterIds :
            /\ (Rows(id) /\ doc_pc' = "ready") =>
                  /\ iters'[id].index = 0
                  /\ iters'[id].yielded = <<>>
                  /\ iters'[id].nones = 0
                  /\ RowCount(document) > 0 =>
                        next(iters'[id]).row = RowOf(document, 0)
            /\ iters'[id] # iters[id] =>
                  \A other \in IterIds \ {id} : iters'[other] = iters[other]]_vars

\* Iterator 1 is exhausted while iterator 2, over the same two rows, has
\* given its first row only.
C16_Witness ==
    /\ iters[1].live /\ iters[1].kind = "rows"
    /\ iters[2].live /\ iters[2].kind = "rows"
    /\ RowCount(document) = 2
    /\ iters[1].index = 2 /\ iters[1].nones > 0
    /\ iters[2].index = 1 /\ iters[2].nones = 0

(***************************************************************************)
(* Filter then project (types.rs, tests::qvd_document_test):               *)
(*   let row_indexes = doc.find_row_indexes(name, value);                  *)
(*   let mut rows = doc.rows_by_indexes(&row_indexes);                     *)
(***************************************************************************)
\* The first column of that name, or none.
FirstNamed(columns, column_name) ==
    LET named == { k \in 1..Len(columns) : columns[k].header = column_name }
    IN  { k \in named : \A j \in named : k <= j }

\* QvdDocument::find_row_indexes: find(..).map(..).unwrap_or_default()
QvdDocument_find_row_indexes(columns, column_name, cell_value_) ==
    IF FirstNamed(columns, column_name) = {} THEN <<>>
    ELSE find_row_indexes(columns[CHOOSE k \in FirstNamed(columns, column_name) : TRUE],
                          cell_value_)

QueryColumns ==
    DocColumns \cup
    { [header |-> "Quarter", symbols |-> <<Text(<<81, 49>>), Text(<<81, 50>>)>>,
       indexes |-> <<0, 0>>] }

QueryDocuments ==
    { [k \in 1..Len(cs) |-> Truncated(cs[k], n)] :
        cs \in UNION { [1..m -> QueryColumns] : m \in 0..MaxCols }, n \in 0..2 }

\* What the caller searches for: <<column name, value>>.
FindArgs ==
    { <<"Quarter", Text(<<81, 49>>)>>, <<"Month", Text(<<50>>)>>, <<"Month", Int32(7)>>,
      <<"some_null", Float(MinusZero)>>, <<"some_null", Null>>, <<"all Null", Null>>,
      <<"absent", Text(<<81, 49>>)>> }

InitQuery ==
    /\ ScanIdle
    /\ ReadIdle
    /\ RowsIdle
    /\ column = [header |-> "", symbols |-> <<>>, indexes |-> <<>>]
    /\ query = NoQuery
    /\ document \in QueryDocuments
    /\ doc_pc = "ready"
    /\ iters = [id \in IterIds |-> NoIter]

\* let row_indexes = doc.find_row_indexes(name, value);
DocFindRowIndexes ==
    /\ doc_pc = "ready"
    /\ query.op = "none"
    /\ \E a \in FindArgs :
        query' = [NoQuery EXCEPT !.op = "find_row_indexes", !.arg = a,
                      !.rows = QvdDocument_find_row_indexes(document, a[1], a[2])]
    /\ UNCHANGED <<column, docVars>>
    /\ UNCHANGED <<scanVars, rowVars, readVars, runVars>>

\* let mut rows = doc.rows_by_indexes(&row_indexes);
RowsByFound ==
    /\ query.op = "find_row_indexes"
    /\ RowsByIndexes(1, query.rows)
    /\ UNCHANGED <<scanVars, rowVars, colVars, readVars, runVars>>

RowsByGiven ==
    /\ \E row_indexes \in RowLists : RowsByIndexes(1, row_indexes)
    /\ UNCHANGED <<scanVars, rowVars, colVars, readVars, runVars>>

RowsNext ==
    /\ IterNext(1)
    /\ UNCHANGED <<scanVars, rowVars, colVars, readVars, runVars>>

NextQuery == DocFindRowIndexes \/ RowsByFound \/ RowsByGiven \/ RowsNext

SpecQuery == InitQuery /\ [][NextQuery]_vars

(***************************************************************************)
(* C11                                                                     *)
(***************************************************************************)
\* The rows of the Document, ascending from r, whose column k equals v.
RECURSIVE RowsEqual(_, _, _, _)
RowsEqual(columns, k, v, r) ==
    IF r >= RowCount(columns) THEN <<>>
    ELSE (IF RowEquals(columns[k], r, v) THEN <<RowOf(columns, r)>> ELSE <<>>)
         \o RowsEqual(columns, k, v, r + 1)

\* The iterator was made from the positions the last search returned, the
\* search being for a non-null value in a column the Document has.
IsFilter(it) ==
    /\ query.op = "find_row_indexes"
    /\ it.arg = query.rows
    /\ query.arg[2].tag # "Null"
    /\ FirstNamed(document, query.arg[1]) # {}

\* C11: rows_by_indexes(positions) on a Document with columns returns an
\* iterator that yields len(positions) rows and then ends, the k-th being
\* the row at positions[k]; made from find_row_indexes(c, v) for a non-null
\* v, it yields exactly the rows whose column c equals v, in ascending row
\* order.
C11_Claimed ==
    /\ Len(document) > 0 => doc_pc # "panic"
    /\ (iters[1].live /\ iters[1].kind = "rows_by_indexes") =>
        LET it == iters[1] IN
        /\ Len(it.yielded) <= Len(it.arg)
        /\ it.index = Len(it.yielded)
        /\ \A k \in 1..Len(it.yielded) :
              it.arg[k] < RowCount(document) => it.yielded[k] = RowOf(document, it.arg[k])
        /\ (it.nones > 0 => Len(it.yielded) = Len(it.arg))
        /\ (IsFilter(it) /\ it.nones > 0) =>
              it.yielded = RowsEqual(document,
                                     CHOOSE k \in FirstNamed(document, query.arg[1]) : TRUE,
                                     query.arg[2], 0)

(***************************************************************************)
(* C14                                                                     *)
(***************************************************************************)
\* C14: QvdDocument::find_row_indexes(column_name, value) returns the empty
\* list when no column has that name or when no Dictionary entry of the
\* column equals the value, and for every value, Null included, it returns
\* no row whose index is negative.
C14_NeverMatchesNull ==
    (doc_pc = "ready" /\ query.op = "find_row_indexes") =>
        LET named == FirstNamed(document, query.arg[1]) IN
        /\ named = {} => query.rows = <<>>
        /\ \A n \in named :
            LET c == document[n] IN
            /\ MatchingSymbols(c.symbols, query.arg[2]) = {} => query.rows = <<>>
            /\ \A k \in 1..Len(query.rows) :
                  /\ query.rows[k] < Len(c.indexes)
                  /\ c.indexes[query.rows[k] + 1] >= 0

\* Null is searched in a column whose second row is Null.
C14_Witness ==
    /\ doc_pc = "ready"
    /\ query.op = "find_row_indexes"
    /\ query.arg = <<"some_null", Null>>
    /\ Len(document) = 1
    /\ document[1].header = "some_null"
    /\ document[1].indexes = <<1, -2>>
    /\ query.rows = <<>>

(***************************************************************************)
(* The scan as a state machine: one action per loop iteration.             *)
(***************************************************************************)
ScanState == [i |-> i, string_start |-> string_start,
              cell_values |-> cell_values, pc |-> scan_pc]

InitScan ==
    /\ ReadIdle
    /\ RowsIdle
    /\ ColumnIdle
    /\ DocIdle
    /\ symbols_in \in SymbolLists
    /\ field_buf = EncodeSymbols(symbols_in)
    /\ i = ScanInit.i
    /\ string_start = ScanInit.string_start
    /\ cell_values = ScanInit.cell_values
    /\ scan_pc = ScanInit.pc

ScanLoop ==
    /\ scan_pc = "run"
    /\ LET st == ScanStep(field_buf, ScanState)
       IN  /\ i' = st.i
           /\ string_start' = st.string_start
           /\ cell_values' = st.cell_values
           /\ scan_pc' = st.pc
    /\ UNCHANGED <<field_buf, symbols_in>>
    /\ UNCHANGED <<rowVars, colVars, docVars, readVars, runVars>>

NextScan == ScanLoop

SpecScan == InitScan /\ [][NextScan]_vars

(***************************************************************************)
(* C5                                                                      *)
(***************************************************************************)
\* The Dictionary a symbol list stands for: one entry per symbol, in order.
SymbolValue(s) ==
    IF s.lead = 1 THEN Int32(I32FromLe(s.payload))
    ELSE IF s.lead = 2 THEN Float(s.payload)
    ELSE Text(s.text)

ExpectedDictionary(ss) == [k \in 1..Len(ss) |-> SymbolValue(ss[k])]

ControlBytes == {0, 1, 2, 4, 5, 6}

RECURSIVE IsUtf8(_)
IsUtf8(t) ==
    \/ t = <<>>
    \/ LET c == Utf8Chunk(t)
       IN  c[1] /\ IsUtf8(SubSeq(t, c[2] + 1, Len(t)))

PlainText(t) == IsUtf8(t) /\ \A k \in 1..Len(t) : t[k] \notin ControlBytes

ScanEnded == scan_pc \in {"done", "panic"}

\* C5 as claimed: for every segment that is a concatenation of encoded symbols
\* whose text bytes hold no 0x00, the scan returns exactly one Dictionary
\* entry per symbol, in segment order, a Text entry being the symbol's text
\* bytes.
C5_Claimed ==
    ScanEnded =>
        /\ scan_pc = "done"
        /\ cell_values = ExpectedDictionary(symbols_in)

\* C5 amended: the same, for segments whose text bytes are valid UTF-8 and
\* hold none of the bytes 0x00, 0x01, 0x02, 0x04, 0x05, 0x06.
C5_DictionaryOfPlainSymbols ==
    (ScanEnded /\ \A k \in 1..Len(symbols_in) : PlainText(symbols_in[k].text)) =>
        /\ scan_pc = "done"
        /\ cell_values = ExpectedDictionary(symbols_in)

C5_Witness ==
    /\ scan_pc = "done"
    /\ Len(symbols_in) = 2
    /\ symbols_in[1].lead = 5 /\ symbols_in[1].text = <<195, 164>>
    /\ symbols_in[2].lead = 1
    /\ Len(cell_values) = 2

(***************************************************************************)
(* QvdDocument::read / read_qvd (types.rs, reader.rs).                     *)
(* A file is [fault, meta, data]: meta is what the metadata text says      *)
(* (QvdTableHeader: offset, record_byte_size, fields), data the bytes      *)
(* after the NUL terminator, and fault what is wrong with the file.        *)
(***************************************************************************)
\* One field of a table: its name, its symbol segment and its bit range.
FieldKinds ==
    { [field_name |-> "A", segment |-> <<4, 65, 0, 4, 66, 0>>,
       bit_offset |-> 0, bit_width |-> 2, bias |-> 0],
      [field_name |-> "B", segment |-> <<>>,
       bit_offset |-> 2, bit_width |-> 1, bias |-> -2],
      [field_name |-> "C", segment |-> <<1, 7, 0, 0, 0>>,
       bit_offset |-> 0, bit_width |-> 1, bias |-> 0],
      [field_name |-> "E", segment |-> <<4, 65, 0>>,
       bit_offset |-> 8, bit_width |-> 1, bias |-> -1] }

FieldLists == UNION { [1..n -> FieldKinds] : n \in 0..MaxCols }

FileRecordSizes == {0, 1, 2}

FileRecords(size) ==
    IF size = 1 THEN { <<4>>, <<1>> }
    ELSE IF size = 2 THEN { <<4, 1>> }
    ELSE {}

\* Row sections of whole records, and for 2-byte records also with one
\* trailing byte.
FileRowSections(size) ==
    { ConcatAll(rs) \o p :
        rs \in UNION { [1..n -> FileRecords(size)] : n \in 0..MaxRecords },
        p \in IF size = 2 THEN { <<>>, <<1>> } ELSE { <<>> } }

Faults ==
    { "missing",          \* File::open fails
      "read_xml",         \* read_until fails
      "xml_utf8",         \* the metadata text is not UTF-8
      "no_nul",           \* the file ends without a NUL terminator
      "xml_parse",        \* the metadata text does not parse
      "read_data",        \* read_to_end fails
      "offset_past_end",  \* Offset is larger than the data
      "field_past_end" }  \* a field's Offset + Length is past the symbol map

RECURSIVE SegmentsLen(_, _)
SegmentsLen(kinds, k) ==
    IF k = 0 THEN 0 ELSE SegmentsLen(kinds, k - 1) + Len(kinds[k].segment)

FileOf(kinds, size, row_bytes, fault) ==
    LET symbols == ConcatAll([k \in 1..Len(kinds) |-> kinds[k].segment])
        headers == [k \in 1..Len(kinds) |->
                      [field_name |-> kinds[k].field_name,
                       offset |-> SegmentsLen(kinds, k - 1),
                       length |-> Len(kinds[k].segment)
                                  + (IF fault = "field_past_end" THEN 1 + Len(row_bytes) ELSE 0),
                       bit_offset |-> kinds[k].bit_offset,
                       bit_width |-> kinds[k].bit_width,
                       bias |-> kinds[k].bias]]
    IN  [fault |-> fault,
         meta |-> [offset |-> IF fault = "offset_past_end"
                              THEN Len(symbols) + Len(row_bytes) + 1 ELSE Len(symbols),
                   record_byte_size |-> size,
                   fields |-> headers],
         data |-> IF fault = "no_nul" THEN <<>> ELSE symbols \o row_bytes]

\* The all-Null field alone, without rows.
EmptyTable == <<CHOOSE f \in FieldKinds : f.field_name = "B">>

\* A record size with a row section of records of that size.
SizedRowSections ==
    UNION { { <<size, row_bytes>> : row_bytes \in FileRowSections(size) } :
            size \in FileRecordSizes }

Files ==
    { FileOf(kinds, sr[1], sr[2], "none") :
        kinds \in FieldLists, sr \in SizedRowSections }
    \cup { FileOf(EmptyTable, 1, <<>>, fault) : fault \in Faults }

(***************************************************************************)
(* read_qvd step by step.  A panic (unwrap, expect, slice index, worker)   *)
(* ends the caller: pc = "panic" and nothing is returned.                  *)
(***************************************************************************)
\* Field::from_header_and_symbol_map: [ok, field]; &buf[start..end] panics
\* when end is past the symbol map.
from_header_and_symbol_map(header, map) ==
    LET start == header.offset
        end == start + header.length
    IN  IF end > Len(map) THEN [ok |-> FALSE, field |-> <<>>]
        ELSE [ok |-> TRUE,
              field |-> [field_header |-> header, field_buf |-> Slice(map, start, end)]]

\* The closure of the parallel map: [ok, column].
DecodeField(field, section, size) ==
    LET s == get_column_values_from_buf(field.field_buf)
        r == get_row_indexes(section, field.field_header, size)
    IN  [ok |-> s.ok /\ r.ok,
         column |-> [header |-> field.field_header.field_name,
                     symbols |-> s.values,
                     indexes |-> r.indexes]]

\* The columns taken in the order the workers completed.
CollectAsCompleted(produced, order) == [k \in 1..Len(produced) |-> produced[order[k]]]

\* collect() of an indexed parallel iterator: item k is the result for field k.
Collect(produced, order) == [k \in 1..Len(produced) |-> produced[k]]

InitRead ==
    /\ ScanIdle
    /\ RowsIdle
    /\ ColumnIdle
    /\ DocIdle
    /\ file \in Files
    /\ pc = "open"
    /\ qvd_structure = NoStructure
    /\ read_buf = <<>>
    /\ symbol_map = <<>>
    /\ row_section = <<>>
    /\ fields = <<>>
    /\ workers = <<>>
    /\ slots = <<>>
    /\ finish_order = <<>>
    /\ result = "none"
    /\ previous = NoRun

\* let file = File::open(&file_name)?;
Open ==
    /\ pc = "open"
    /\ IF file.fault = "missing"
       THEN pc' = "done" /\ result' = "Err"
       ELSE pc' = "xml" /\ UNCHANGED result
    /\ UNCHANGED <<file, qvd_structure, read_buf, symbol_map, row_section, fields,
                   workers, slots, finish_order>>
    /\ UNCHANGED <<scanVars, rowVars, colVars, docVars, runVars>>

\* let xml: String = get_xml_data(&mut reader)?;  -- it never returns Err
GetXmlData ==
    /\ pc = "xml"
    /\ pc' = IF file.fault \in {"read_xml", "xml_utf8"} THEN "panic" ELSE "parse"
    /\ UNCHANGED <<file, qvd_structure, read_buf, symbol_map, row_section, fields,
                   workers, slots, finish_order, result>>
    /\ UNCHANGED <<scanVars, rowVars, colVars, docVars, runVars>>

\* let qvd_structure: QvdTableHeader = from_str(&xml).unwrap();
FromStr ==
    /\ pc = "parse"
    /\ IF file.fault = "xml_parse"
       THEN pc' = "panic" /\ UNCHANGED qvd_structure
       ELSE pc' = "read" /\ qvd_structure' = file.meta
    /\ UNCHANGED <<file, read_buf, symbol_map, row_section, fields,
                   workers, slots, finish_order, result>>
    /\ UNCHANGED <<scanVars, rowVars, colVars, docVars, runVars>>

\* reader.read_to_end(&mut buf).unwrap();
ReadToEnd ==
    /\ pc = "read"
    /\ IF file.fault = "read_data"
       THEN pc' = "panic" /\ UNCHANGED read_buf
       ELSE pc' = "split" /\ read_buf' = file.data
    /\ UNCHANGED <<file, qvd_structure, symbol_map, row_section, fields,
                   workers, slots, finish_order, result>>
    /\ UNCHANGED <<scanVars, rowVars, colVars, docVars, runVars>>

\* let (symbol_map, row_section) = buf.split_at(qvd_structure.offset);
SplitAt ==
    /\ pc = "split"
    /\ IF qvd_structure.offset > Len(read_buf)
       THEN pc' = "panic" /\ UNCHANGED <<symbol_map, row_section>>
       ELSE /\ pc' = "fields"
            /\ symbol_map' = Slice(read_buf, 0, qvd_structure.offset)
            /\ row_section' = Slice(read_buf, qvd_structure.offset, Len(read_buf))
    /\ UNCHANGED <<file, qvd_structure, read_buf, fields,
                   workers, slots, finish_order, result>>
    /\ UNCHANGED <<scanVars, rowVars, colVars, docVars, runVars>>

\* let fields: Vec<Field> = qvd_structure.fields.headers.iter().map(..).collect();
MakeFields ==
    /\ pc = "fields"
    /\ LET headers == qvd_structure.fields
           each == [k \in 1..Len(headers) |->
                      from_header_and_symbol_map(headers[k], symbol_map)]
       IN  IF \E k \in 1..Len(headers) : ~each[k].ok
           THEN pc' = "panic" /\ UNCHANGED <<fields, workers, slots>>
           ELSE /\ pc' = "par"
                /\ fields' = [k \in 1..Len(headers) |-> each[k].field]
                /\ workers' = [k \in 1..Len(headers) |-> "todo"]
                /\ slots' = [k \in 1..Len(headers) |->
                               [header |-> "", symbols |-> <<>>, indexes |-> <<>>]]
    /\ UNCHANGED <<file, qvd_structure, read_buf, symbol_map, row_section,
                   finish_order, result>>
    /\ UNCHANGED <<scanVars, rowVars, colVars, docVars, runVars>>

\* One worker runs the closure on field k.
Worker(k) ==
    /\ pc = "par"
    /\ workers[k] = "todo"
    /\ LET d == DecodeField(fields[k], row_section, qvd_structure.record_byte_size)
       IN  IF d.ok
           THEN /\ workers' = [workers EXCEPT ![k] = "done"]
                /\ slots' = [slots EXCEPT ![k] = d.column]
           ELSE /\ workers' = [workers EXCEPT ![k] = "panic"]
                /\ UNCHANGED slots
    /\ finish_order' = Append(finish_order, k)
    /\ UNCHANGED <<file, pc, qvd_structure, read_buf, symbol_map, row_section,
                   fields, result>>
    /\ UNCHANGED <<scanVars, rowVars, colVars, docVars, runVars>>

\* The join: a panic of a worker is resumed in the caller; otherwise
\* .collect(), Ok(columns) and Ok(Self { columns }) of QvdDocument::read.
Join ==
    /\ pc = "par"
    /\ \A k \in 1..Len(workers) : workers[k] # "todo"
    /\ IF \E k \in 1..Len(workers) : workers[k] = "panic"
       THEN pc' = "panic" /\ UNCHANGED <<result, document, doc_pc>>
       ELSE /\ pc' = "done"
            /\ result' = "Ok"
            /\ document' = Collect(slots, finish_order)
            /\ doc_pc' = "ready"
    /\ UNCHANGED <<file, qvd_structure, read_buf, symbol_map, row_section, fields,
                   workers, slots, finish_order, iters>>
    /\ UNCHANGED <<scanVars, rowVars, colVars, runVars>>

\* The caller queries the Document it was given.
Query ==
    /\ \/ Rows(1)
       \/ IterNext(1)
    /\ UNCHANGED <<scanVars, rowVars, colVars, readVars, runVars>>

Next ==
    \/ Open
    \/ GetXmlData
    \/ FromStr
    \/ ReadToEnd
    \/ SplitAt
    \/ MakeFields
    \/ \E k \in 1..Len(workers) : Worker(k)
    \/ Join
    \/ Query

Spec == InitRead /\ [][Next]_vars

(***************************************************************************)
(* C3, C6, C7, C8, C9                                                      *)
(***************************************************************************)
Returned == pc = "done"

Produced == result = "Ok"

InRange(c) ==
    \A r \in 1..Len(c.indexes) : c.indexes[r] >= 0 => c.indexes[r] < Len(c.symbols)

\* C3: in every Document the pipeline produces all columns have index
\* sequences of one length, every column materializes to a value sequence
\* of that length, and rows() yields that many rows.
C3_Claimed ==
    (Produced /\ Len(document) > 0) =>
        LET n == RowCount(document) IN
        /\ \A k \in 1..Len(document) : Len(document[k].indexes) = n
        /\ \A k \in 1..Len(document) :
              as_values(document[k]).ok /\ Len(as_values(document[k]).values) = n
        /\ rows(document).ok /\ rows(document).iter.rows_total = n

\* C6: a row section whose length is not a multiple of record_byte_size
\* makes the decode return an error, and no Document is produced.
C6_Claimed ==
    (pc \in {"done", "panic"} /\ file.fault = "none"
        /\ file.meta.record_byte_size > 0
        /\ Len(row_section) % file.meta.record_byte_size # 0)
    => (result = "Err" /\ doc_pc = "none")

\* C7: every decode failure reaches the caller as an error value, and read
\* ends with a whole Document or an error, never with an abort of the caller.
C7_Claimed ==
    /\ pc # "panic"
    /\ (Returned /\ file.fault # "none") => result = "Err"

\* C8: in every Document the pipeline returns, every non-negative entry of
\* a column's index sequence is smaller than the column's dictionary size.
C8_Claimed ==
    Produced => \A k \in 1..Len(document) : InRange(document[k])

\* The decode of field k of the file, from the file alone.
FieldColumn(k) ==
    LET header == file.meta.fields[k]
        segment == Slice(file.data, header.offset, header.offset + header.length)
        section == Slice(file.data, file.meta.offset, Len(file.data))
    IN  [header |-> header.field_name,
         symbols |-> get_column_values_from_buf(segment).values,
         indexes |-> get_row_indexes(section, header, file.meta.record_byte_size).indexes]

\* C9: whatever the order in which the workers complete, column k of the
\* Document is the decode of field k of the metadata.
C9_FieldOrder ==
    Produced =>
        /\ Len(document) = Len(file.meta.fields)
        /\ \A k \in 1..Len(document) : document[k] = FieldColumn(k)

C9_Witness ==
    /\ Produced
    /\ finish_order = <<2, 1>>
    /\ document[1].header = "A" /\ document[2].header = "B"
    /\ document[1].indexes = <<0, 1>>

(***************************************************************************)
(* The same file read twice: the second read starts when the first has     *)
(* ended, and `previous` keeps how the first ended.                        *)
(***************************************************************************)
\* Files with at most one record in the row section.
InitTwice ==
    /\ InitRead
    /\ Len(file.data) - file.meta.offset <= file.meta.record_byte_size

Rerun ==
    /\ pc \in {"done", "panic"}
    /\ previous = NoRun
    /\ previous' = [pc |-> pc, result |-> result, document |-> document,
                    finish_order |-> finish_order]
    /\ pc' = "open"
    /\ qvd_structure' = NoStructure
    /\ read_buf' = <<>>
    /\ symbol_map' = <<>>
    /\ row_section' = <<>>
    /\ fields' = <<>>
    /\ workers' = <<>>
    /\ slots' = <<>>
    /\ finish_order' = <<>>
    /\ result' = "none"
    /\ document' = <<>>
    /\ doc_pc' = "none"
    /\ UNCHANGED <<file, iters>>
    /\ UNCHANGED <<scanVars, rowVars, colVars>>

NextTwice ==
    \/ Open
    \/ GetXmlData
    \/ FromStr
    \/ ReadToEnd
    \/ SplitAt
    \/ MakeFields
    \/ \E k \in 1..Len(workers) : Worker(k)
    \/ Join
    \/ Rerun

SpecTwice == InitTwice /\ [][NextTwice]_vars

(***************************************************************************)
(* C15                                                                     *)
(***************************************************************************)
\* C15: two reads of the same file end the same way under every schedule of
\* the workers, and when they produce Documents these have the same column
\* names, Dictionaries and index sequences.
C15_Deterministic ==
    (previous # NoRun /\ pc \in {"done", "panic"}) =>
        /\ pc = previous.pc
        /\ result = previous.result
        /\ Len(document) = Len(previous.document)
        /\ \A k \in 1..Len(document) :
              /\ document[k].header = previous.document[k].header
              /\ document[k].symbols = previous.document[k].symbols
              /\ document[k].indexes = previous.document[k].indexes

\* The workers complete in opposite orders in the two reads.
C15_Witness ==
    /\ previous.result = "Ok" /\ result = "Ok"
    /\ previous.finish_order = <<1, 2>>
    /\ finish_order = <<2, 1>>
    /\ document[1].header = "A" /\ document[2].header = "C"
    /\ document[1].indexes = <<0>>

(***************************************************************************)
(* C18                                                                     *)
(***************************************************************************)
\* The positions (from 0) of the payload bytes in EncodeSymbols(ss) placed
\* at position at.
RECURSIVE PayloadPositions(_, _)
PayloadPositions(ss, at) ==
    IF ss = <<>> THEN {}
    ELSE ((at + 1)..(at + Len(Head(ss).payload)))
         \cup PayloadPositions(Tail(ss), at + Len(EncodeSymbol(Head(ss))))

\* Symbol k of the list starts at this position of the segment.
SymbolStart(ss, k) == Len(EncodeSymbols(SubSeq(ss, 1, k - 1)))

\* The scan is at a byte it is about to interpret.
AtByte == scan_pc = "run" /\ i < Len(field_buf)

PayloadSkipped ==
    LET payload == PayloadPositions(symbols_in, 0) IN
    /\ AtByte => i \notin payload
    /\ (AtByte /\ field_buf[i + 1] = 0) =>
            \A pos \in string_start..(i - 1) : pos \notin payload
    /\ \A k \in 1..Len(symbols_in) :
          LET sym == symbols_in[k]
              text_start == SymbolStart(symbols_in, k) + 1 + Len(sym.payload)
          IN  (AtByte /\ sym.lead \in {5, 6} /\ i = text_start + Len(sym.text)) =>
                  string_start = text_start

\* C18 as claimed: in every segment of encoded symbols the scan never
\* interprets a payload byte of a 0x01, 0x02, 0x05 or 0x06 symbol as a
\* control byte and never takes one into a Text value, and the Text of a
\* 0x05 / 0x06 symbol starts right after its payload.
C18_Claimed == PayloadSkipped

ControlFree(t) == \A k \in 1..Len(t) : t[k] \notin ControlBytes

\* C18 amended: the same, for segments whose text bytes hold none of the
\* bytes 0x00, 0x01, 0x02, 0x04, 0x05, 0x06; the payload bytes may have any
\* value.
C18_PayloadSkipped ==
    (\A k \in 1..Len(symbols_in) : ControlFree(symbols_in[k].text)) => PayloadSkipped

\* A 0x06 symbol whose payload holds 0x00, 0x04, 0x01 and 0x02, then an Int
\* whose payload holds 0x00; the scan has ended.
C18_Witness ==
    /\ scan_pc = "done"
    /\ symbols_in = <<[lead |-> 6, payload |-> <<0, 4, 1, 1, 1, 1, 1, 2>>, text |-> <<65>>],
                      [lead |-> 1, payload |-> <<10, 0, 0, 0>>, text |-> <<>>]>>
    /\ cell_values = <<Text(<<65>>), Int32(10)>>

(***************************************************************************)
(* C19                                                                     *)
(***************************************************************************)
\* C19: the scan of every segment ends: a step of the loop is taken only
\* below the end of the segment and either moves the position forward by 1,
\* 5 or 9 or ends the scan where it stands, so the steps are bounded; the
\* string start is not past the position when a 0x00 terminator is
\* processed, and the empty segment gives the empty Dictionary.
C19_ScanTerminates ==
    /\ [][scan_pc = "run" =>
            \/ /\ scan_pc' = "run"
               /\ i < Len(field_buf)
               /\ i' - i \in {1, 5, 9}
            \/ /\ scan_pc' \in {"done", "panic"}
               /\ i' = i]_vars
    /\ []((AtByte /\ field_buf[i + 1] = 0) => string_start <= i)
    /\ []((ScanEnded /\ field_buf = <<>>) => (scan_pc = "done" /\ cell_values = <<>>))

\* The scan has ended after steps of 9 (0x06), 1 (text byte), 1 (0x00), 5.
C19_Witness ==
    /\ scan_pc = "done"
    /\ field_buf = <<6, 0, 4, 1, 1, 1, 1, 1, 2, 65, 0, 1, 10, 0, 0, 0>>
    /\ i = 16
    /\ Len(cell_values) = 2

(***************************************************************************)
(* The scan of a segment cut short: the header's Length decides where the  *)
(* slice of from_header_and_symbol_map ends, wherever the symbols end.     *)
(***************************************************************************)
InitScanCut ==
    /\ ReadIdle
    /\ RowsIdle
    /\ ColumnIdle
    /\ DocIdle
    /\ symbols_in \in SymbolLists
    /\ \E length \in 0..Len(EncodeSymbols(symbols_in)) :
          field_buf = Slice(EncodeSymbols(symbols_in), 0, length)
    /\ i = ScanInit.i
    /\ string_start = ScanInit.string_start
    /\ cell_values = ScanInit.cell_values
    /\ scan_pc = ScanInit.pc

SpecScanCut == InitScanCut /\ [][NextScan]_vars

(***************************************************************************)
(* C20                                                                     *)
(***************************************************************************)
\* C20: for every symbol segment, one cut inside the payload of its last
\* 0x01 or 0x02 included, the scan stays inside the segment and completes
\* with a Dictionary or a reported error: it never aborts.
C20_Claimed == scan_pc # "panic"

============================================================================
